---- MODULE Spec2Model ----
(***************************************************************************)
(* Amiya-Bot-core: the gateway connection supervisors of the KOOK and      *)
(* Mirai adapters (amiyabot/adapters/kook, amiyabot/adapters/mirai).       *)
(*                                                                         *)
(* Every coroutine is modelled by the await it is suspended at; one action *)
(* is the code that runs from the completion of that await to the next     *)
(* await of the same coroutine (asyncio runs it without interruption).     *)
(* Time is discrete: Tick advances every pending asyncio.sleep by one      *)
(* time-unit, and only when no coroutine is ready to run.  recv() may take *)
(* any time; the other network operations (HTTP request, socket opening,   *)
(* send, close) end within the time-unit in which they were started, in    *)
(* any order with the steps of the other coroutines.                       *)
(*                                                                         *)
(* The second part is the handler factory (amiyabot/handler): a host       *)
(* BotInstance, its private handler collections, the plugins installed on  *)
(* it and the merged views computed by __get_with_plugins.  It has its own *)
(* specification, FactorySpec, in which no adapter is running.             *)
(***************************************************************************)
EXTENDS Integers, FiniteSets, Sequences, TLC

\* ------------------------------------------------------------------ bounds
MaxSn == 2
MaxAttempts == 2
MaxHb == 1
MaxWd == 1
MaxDispatch == 1
MaxReg == 1
MaxKw == 1
MaxView == 3
MaxPrefix == 2

\* ------------------------------------------------------- program constants
ReconnectDelay == 10
HeartbeatPeriod == 30
WatchdogDeadline == 30
NoSn == -1
NoConn == 0

\* ------------------------------------------------------------------- state
VARIABLES
    adapter,      \* which adapter class the instance was built with
    pc,           \* the await the connect() coroutine is suspended at
    timer,        \* time-units left of connect()'s asyncio.sleep(10)
    keep_run,     \* BotAdapterProtocol.keep_run (KOOK run flag)
    alive,        \* MiraiBotInstance.alive
    ws_url,       \* KOOK cached gateway endpoint: "" or "gw"
    connection,   \* self.connection: NoConn (None) or a transport id
    websocket,    \* the local `websocket` of the running attempt
    wsOpen,       \* transports that are open
    attempts,     \* transports opened so far (the id of the newest one)
    last_sn,      \* self.last_sn
    pong,         \* self.pong
    session,      \* self.session: 0 (unset) or 1 (a session id)
    payload,      \* the local `payload` of __connect during an iteration
    pending,      \* exception travelling through `async with` / finally
    resumeSent,   \* a resume frame (s=4) was written to `websocket`
    resumeSn,     \* sn of the resume frame being written (NoSn: none)
    hb,           \* heartbeat_interval tasks
    wd,           \* wait_heartbeat tasks
    closer,       \* the caller of close()
    dispatch,     \* handler tasks spawned and not finished
    prevEnd,      \* history: how the last finished KOOK attempt ended
    hbConn,       \* history: transport of the oldest heartbeat not yet acked
    hbAge,        \* history: time-units since that heartbeat was written
    plugins,      \* BotHandlerFactory.plugins: <<[id, inst]>> in dict order
    hostEv,       \* the host's _event_handlers: key -> list of handlers
    instEv,       \* each plugin object's _event_handlers
    hostMsg,      \* the host's _message_handlers
    instMsg,      \* each plugin object's _message_handlers
    hostPrefix,   \* the host's _prefix_keywords
    instPrefix,   \* each plugin object's _prefix_keywords
    hook,         \* the install()/uninstall() hook that is running
    lastOp,       \* history: the call made by the last step
    order,        \* history: installed plugin objects, oldest install first
    snap          \* history: the merged views when the last plugin went in

connVars == <<adapter, pc, timer, keep_run, alive, ws_url, connection,
              websocket, wsOpen, attempts, last_sn, pong, session, payload,
              pending, resumeSent, resumeSn, hb, wd, closer, dispatch,
              prevEnd, hbConn, hbAge>>

factoryVars == <<plugins, hostEv, instEv, hostMsg, instMsg, hostPrefix,
                 instPrefix, hook, lastOp, order, snap>>

vars == <<connVars, factoryVars>>

kookVars == <<keep_run, ws_url, last_sn, pong, payload, resumeSent, resumeSn,
              hb, wd, dispatch, prevEnd, hbConn, hbAge>>

\* WSPayload: s, d (only d.code is read), sn.  s = -1 stands for a text that
\* json.loads or WSPayload(**...) rejects.
SnValues == {NoSn} \cup (0..MaxSn)
Malformed == [s |-> -1, code |-> 0, sn |-> NoSn]
Frames ==
    {[s |-> k, code |-> 0, sn |-> n] : k \in {0, 1, 3, 5, 6}, n \in SnValues}
    \cup {[s |-> 1, code |-> 1, sn |-> n] : n \in SnValues}
    \cup {Malformed}
NoFrame == [s |-> -2, code |-> 0, sn |-> NoSn]

HbIds == 1..MaxHb
WdIds == 1..MaxWd
IdleTask == [pc |-> "none", sec |-> 0, timer |-> 0, sn |-> NoSn]

\* Handler factory: event names, plugin objects (P1 and P3 carry the same
\* plugin_id), the factory given to combine_factory, and who registers
\* handlers for which event.
Keys == {"e1", "e2"}
Plugins == {"P1", "P2", "P3"}
FactoryObj == "F"
Insts == Plugins \cup {FactoryObj}
Host == "H"
RegOwners == {Host, "P1", "P2"}
RegKeys(o) == IF o = "P1" THEN Keys ELSE {"e1"}
FactorySlot == "__factory__"
PluginId(p) == IF p = "P2" THEN "b" ELSE "a"
Ids == {"a", "b", FactorySlot}
EmptyDict == [k \in {} |-> <<>>]
NoHook == [kind |-> "none", inst |-> "-"]
NoOp == [op |-> "none", arg |-> "-"]
NoSnap == [inst |-> "-", ev |-> EmptyDict, msg |-> <<>>]

\* BotHandlerFactory.__init__ (handler lines 26-37) for the host and for
\* every plugin object.
FactoryEmpty ==
    /\ plugins = <<>>
    /\ hostEv = EmptyDict
    /\ instEv = [i \in Insts |-> EmptyDict]
    /\ hostMsg = <<>>
    /\ instMsg = [i \in Insts |-> <<>>]
    /\ hostPrefix = <<>>
    /\ instPrefix = [i \in Insts |-> <<>>]
    /\ hook = NoHook
    /\ lastOp = NoOp
    /\ order = <<>>
    /\ snap = NoSnap

Init ==
    /\ FactoryEmpty
    /\ adapter \in {"KOOK", "Mirai"}
    /\ pc = IF adapter = "KOOK" THEN "me_req" ELSE "connecting"
    /\ timer = 0
    /\ keep_run = TRUE
    /\ alive = TRUE
    /\ ws_url = ""
    /\ connection = NoConn
    /\ websocket = NoConn
    /\ wsOpen = {}
    /\ attempts = 0
    /\ last_sn = 0
    /\ pong = 0
    /\ session = 0
    /\ payload = NoFrame
    /\ pending = "none"
    /\ resumeSent = FALSE
    /\ resumeSn = NoSn
    /\ hb = [i \in HbIds |-> IdleTask]
    /\ wd = [j \in WdIds |-> IdleTask]
    /\ closer = "idle"
    /\ dispatch = 0
    /\ prevEnd = "none"
    /\ hbConn = NoConn
    /\ hbAge = 0


\* ------------------------------------------------- KOOK: shared fragments

\* KOOKBotInstance.__still_alive, for the given value of self.connection.
StillAlive(conn) == keep_run /\ conn # NoConn

\* asyncio.create_task(handler('event', payload.d)): one more handler task.
SpawnDispatch(n) == n + 1

\* Variant of AwaitsHandler: the handler is awaited in the receive loop.
AwaitsHandlerInline(n) == n > 0

\* Whether the receive loop is suspended on its n unfinished handler tasks:
\* create_task (kook line 72, mirai line 80) returns at once.
AwaitsHandler(n) == FALSE

\* Variant of CloseTransport: close_connection that does not close.
CloseTransportSkipped(open, conn) == open

\* close_connection, first half: a set connection is asked to close (the
\* transport is unusable from the call on) and the caller is suspended.
CloseTransport(open, conn) == open \ {conn}

\* Variant of ClearConnection: the reference is left as it is.
ClearConnectionSkipped(conn) == conn

\* close_connection, second half (line 124): the reference is cleared.
ClearConnection(conn) == NoConn

\* `while self.__still_alive` evaluated with self.connection = conn: the
\* loop body starts with `await asyncio.sleep(0)`, the loop exit leaves the
\* `async with` block.
LoopHead(conn) == pc' = IF StillAlive(conn) THEN "sleep0" ELSE "exiting"

\* What __connect's caller does once __connect has ended (lines 43-44): an
\* exception leaves connect(); a normal return goes to asyncio.sleep(10).
AfterConnectPc(exc) == IF exc # "none" THEN "raised" ELSE "sleep10"

AfterConnect(exc) ==
    /\ pc' = AfterConnectPc(exc)
    /\ timer' = IF exc # "none" THEN 0 ELSE ReconnectDelay
    /\ pending' = exc

\* The finally block of __connect (lines 98-99) entered with exception exc
\* in flight and `open` the open transports.
Finally(exc, open) ==
    IF connection # NoConn
    THEN /\ pc' = "finally_close"
         /\ wsOpen' = CloseTransport(open, connection)
         /\ pending' = exc
         /\ UNCHANGED <<connection, timer>>
    ELSE /\ connection' = ClearConnection(connection)
         /\ wsOpen' = open
         /\ AfterConnect(exc)

\* `while self.keep_run` (line 42) and __connect up to its first await
\* (lines 46-59).
EnterWhile(url) ==
    pc' = IF ~keep_run THEN "returned"
          ELSE IF url = "" THEN "gateway" ELSE "opening"

\* What leaves the `async with get_websocket_connection(...)` block when
\* its body raised exc: the context manager contains connection faults.
WsExitException(exc) == "none"

FreeHb == {i \in HbIds : hb[i].pc \in {"none", "done", "crashed"}}
FreeWd == {j \in WdIds : wd[j].pc \in {"none", "done"}}

\* asyncio.create_task(self.heartbeat_interval()) (line 85).
SpawnHeartbeat ==
    \E i \in FreeHb : hb' = [hb EXCEPT ![i] = [IdleTask EXCEPT !.pc = "start"]]

\* Lines 84-85 and the rest of the iteration for a handshake-ok frame.
HelloDone(conn) ==
    /\ session' = 1
    /\ SpawnHeartbeat
    /\ LoopHead(conn)

\* ------------------------------------------------ KOOK: connect/__connect

\* line 38-42: the identity request ends; the supervisor loop starts.
KMeReq ==
    /\ adapter = "KOOK" /\ pc = "me_req"
    /\ \E r \in {"ok", "none", "error"} :
         IF r = "error"
         THEN pc' = "raised" /\ pending' = "ResponseException"
         ELSE EnterWhile(ws_url) /\ UNCHANGED pending
    /\ UNCHANGED <<adapter, timer, alive, connection, websocket, wsOpen,
                   attempts, session, closer, kookVars>>
    /\ UNCHANGED factoryVars

\* lines 51-55: the gateway request ends.
KGateway ==
    /\ adapter = "KOOK" /\ pc = "gateway"
    /\ \E r \in {"ok", "none", "error"} :
         IF r = "ok"
         THEN /\ ws_url' = "gw"
              /\ pc' = "opening"
              /\ UNCHANGED <<connection, wsOpen, timer, pending>>
         ELSE /\ Finally(IF r = "none" THEN "TimeoutError"
                         ELSE "ResponseException", wsOpen)
              /\ UNCHANGED ws_url
    /\ UNCHANGED <<adapter, alive, websocket, attempts, session, closer,
                   keep_run, last_sn, pong, payload, resumeSent, resumeSn, hb,
                   wd, dispatch,
                   prevEnd, hbConn, hbAge>>
    /\ UNCHANGED factoryVars

\* lines 59-62: the websocket is open.
KOpened ==
    /\ adapter = "KOOK" /\ pc = "opening"
    /\ attempts < MaxAttempts
    /\ attempts' = attempts + 1
    /\ websocket' = attempts'
    /\ connection' = attempts'
    /\ wsOpen' = wsOpen \cup {attempts'}
    /\ resumeSent' = FALSE
    /\ LoopHead(connection')
    /\ UNCHANGED <<adapter, timer, alive, session, pending, closer, keep_run,
                   ws_url, last_sn, pong, payload, resumeSn, hb, wd, dispatch,
                   prevEnd, hbConn, hbAge>>
    /\ UNCHANGED factoryVars

\* line 63: asyncio.sleep(0) gave the other tasks a turn.
KSleep0 ==
    /\ adapter = "KOOK" /\ pc = "sleep0"
    /\ pc' = "recv"
    /\ payload' = NoFrame
    /\ UNCHANGED <<adapter, timer, alive, connection, websocket, wsOpen,
                   attempts, session, pending, closer, keep_run, ws_url,
                   last_sn, pong, resumeSent, resumeSn, hb, wd, dispatch, prevEnd,
                   hbConn, hbAge>>
    /\ UNCHANGED factoryVars

\* The peer (or the network) ends the transport.
PeerClose ==
    /\ websocket \in wsOpen
    /\ pc \in {"sleep0", "recv", "send_resume", "mrecv"}
    /\ wsOpen' = wsOpen \ {websocket}
    /\ UNCHANGED <<adapter, pc, timer, alive, connection, websocket, attempts,
                   session, pending, closer, kookVars>>
    /\ UNCHANGED factoryVars

\* line 65: recv() on a transport that is closed raises ConnectionClosed.
KRecvClosed ==
    /\ adapter = "KOOK" /\ pc = "recv"
    /\ websocket \notin wsOpen
    /\ pending' = "ConnectionClosed"
    /\ pc' = "exiting"
    /\ UNCHANGED <<adapter, timer, alive, connection, websocket, wsOpen,
                   attempts, session, closer, kookVars>>
    /\ UNCHANGED factoryVars

\* Variant of SnAfter: the sn of a data frame is left to its handler.
SnAfterDeferred(f, sn) == IF f.sn # NoSn /\ f.s # 0 THEN f.sn ELSE sn

\* Variant of SnAfter: a smaller sn than the stored one is ignored.
SnAfterMonotone(f, sn) == IF f.sn # NoSn /\ f.sn > sn THEN f.sn ELSE sn

\* line 68-69: sequence bookkeeping.
SnAfter(f, sn) == IF f.sn # NoSn THEN f.sn ELSE sn

\* line 82: the sn of WSPayload(4, sn=self.last_sn), with self.last_sn = sn.
ResumeSn(sn) == sn

\* lines 65-96: recv() returns frame f and the iteration runs to its next
\* await.
KRecvFrame ==
    /\ adapter = "KOOK" /\ pc = "recv"
    /\ websocket \in wsOpen
    /\ ~AwaitsHandler(dispatch)
    /\ \E f \in Frames :
         IF f.s = -1
         THEN \* line 66 raises before payload is bound
              /\ pending' = "ParseError"
              /\ pc' = "exiting"
              /\ UNCHANGED <<payload, last_sn, ws_url, pong, session, hb,
                             dispatch, resumeSent, resumeSn, connection, wsOpen>>
         ELSE
           /\ payload' = f
           /\ CASE f.s = 0 ->
                   /\ dispatch < MaxDispatch
                   /\ last_sn' = SnAfter(f, last_sn)
                   /\ dispatch' = SpawnDispatch(dispatch)
                   /\ LoopHead(connection)
                   /\ UNCHANGED <<ws_url, pong, session, hb, resumeSent, resumeSn, connection, wsOpen, pending>>
                [] f.s = 1 /\ f.code # 0 ->
                   /\ ws_url' = ""
                   /\ last_sn' = 0
                   /\ pending' = "TimeoutError"
                   /\ pc' = "exiting"
                   /\ UNCHANGED <<pong, session, hb, dispatch, resumeSent, resumeSn, connection, wsOpen>>
                [] f.s = 1 /\ f.code = 0 ->
                   /\ last_sn' = SnAfter(f, last_sn)
                   /\ UNCHANGED <<ws_url, pong, dispatch, connection, wsOpen>>
                   /\ IF last_sn' # 0
                      THEN IF connection = NoConn
                           THEN \* None.send: AttributeError
                                /\ pending' = "AttributeError"
                                /\ pc' = "exiting"
                                /\ UNCHANGED <<session, hb, resumeSent,
                                               resumeSn>>
                           ELSE IF connection \notin wsOpen
                           THEN \* send() on a closed transport
                                /\ pending' = "ConnectionClosed"
                                /\ pc' = "exiting"
                                /\ UNCHANGED <<session, hb, resumeSent,
                                               resumeSn>>
                           ELSE \* WSPayload(4, sn=self.last_sn) is written
                                /\ resumeSent' = TRUE
                                /\ resumeSn' = ResumeSn(last_sn')
                                /\ pc' = "send_resume"
                                /\ UNCHANGED <<session, hb, pending>>
                      ELSE /\ FreeHb # {}
                           /\ HelloDone(connection)
                           /\ UNCHANGED <<resumeSent, resumeSn, pending>>
                [] f.s = 3 ->
                   /\ last_sn' = SnAfter(f, last_sn)
                   /\ pong' = 1
                   /\ LoopHead(connection)
                   /\ UNCHANGED <<ws_url, session, hb, dispatch, resumeSent, resumeSn, connection, wsOpen, pending>>
                [] f.s = 5 ->
                   /\ ws_url' = ""
                   /\ last_sn' = 0
                   /\ IF connection # NoConn
                      THEN /\ wsOpen' = CloseTransport(wsOpen, connection)
                           /\ pc' = "close5"
                           /\ UNCHANGED connection
                      ELSE /\ connection' = ClearConnection(connection)
                           /\ LoopHead(connection')
                           /\ UNCHANGED wsOpen
                   /\ UNCHANGED <<pong, session, hb, dispatch, resumeSent, resumeSn, pending>>
                [] f.s = 6 ->
                   /\ last_sn' = SnAfter(f, last_sn)
                   /\ LoopHead(connection)
                   /\ UNCHANGED <<ws_url, pong, session, hb, dispatch,
                                  resumeSent, resumeSn, connection, wsOpen,
                                  pending>>
    \* history: an ack answers the outstanding heartbeat
    /\ hbConn' = IF payload'.s = 3 THEN NoConn ELSE hbConn
    /\ hbAge' = IF payload'.s = 3 THEN 0 ELSE hbAge
    /\ UNCHANGED <<adapter, timer, alive, websocket, attempts, closer,
                   keep_run, wd, prevEnd>>
    /\ UNCHANGED factoryVars

\* line 82 returned: lines 84-85 and the loop head.
KSendResumeDone ==
    /\ adapter = "KOOK" /\ pc = "send_resume"
    /\ FreeHb # {}
    /\ HelloDone(connection)
    /\ resumeSn' = NoSn
    /\ UNCHANGED <<adapter, timer, alive, connection, websocket, wsOpen,
                   attempts, pending, closer, keep_run, ws_url, last_sn,
                   pong, payload, resumeSent, wd, dispatch,
                   prevEnd, hbConn, hbAge>>
    /\ UNCHANGED factoryVars

\* line 93 returned: close_connection clears the reference; lines 95-96 do
\* not apply to an s=5 frame; the loop head follows.
KClose5Done ==
    /\ adapter = "KOOK" /\ pc = "close5"
    /\ connection' = ClearConnection(connection)
    /\ LoopHead(connection')
    /\ UNCHANGED <<adapter, timer, alive, websocket, wsOpen, attempts,
                   session, pending, closer, kookVars>>
    /\ UNCHANGED factoryVars

\* How an attempt ended, from the last frame of its receive loop.
EndKind(f) ==
    IF f.s = 1 /\ f.code # 0 THEN "reject"
    ELSE IF f.s = 5 THEN "reconnect" ELSE "other"

\* The `async with` block is left (normally or by an exception), then the
\* finally block starts.
KExit ==
    /\ adapter = "KOOK" /\ pc = "exiting"
    /\ Finally(WsExitException(pending), wsOpen)
    /\ payload' = NoFrame
    /\ resumeSent' = FALSE
    /\ prevEnd' = EndKind(payload)
    /\ hbConn' = NoConn
    /\ hbAge' = 0
    /\ UNCHANGED <<adapter, alive, websocket, attempts, session, closer,
                   keep_run, ws_url, last_sn, pong, resumeSn, hb, wd,
                   dispatch>>
    /\ UNCHANGED factoryVars

\* line 99 returned: close_connection clears the reference, __connect ends.
KFinallyClosed ==
    /\ adapter = "KOOK" /\ pc = "finally_close"
    /\ connection' = ClearConnection(connection)
    /\ AfterConnect(pending)
    /\ UNCHANGED <<adapter, alive, websocket, wsOpen, attempts, session,
                   closer, kookVars>>
    /\ UNCHANGED factoryVars

\* line 44 returned: the delay is over, `while self.keep_run` again.
KWake10 ==
    /\ adapter = "KOOK" /\ pc = "sleep10" /\ timer = 0
    /\ EnterWhile(ws_url)
    /\ UNCHANGED <<adapter, timer, alive, connection, websocket, wsOpen,
                   attempts, session, pending, closer, kookVars>>
    /\ UNCHANGED factoryVars

\* close() (lines 126-129) called from outside, up to its await.
KClose ==
    /\ adapter = "KOOK" /\ closer = "idle"
    /\ keep_run' = FALSE
    /\ IF connection # NoConn
       THEN /\ wsOpen' = CloseTransport(wsOpen, connection)
            /\ closer' = "closing"
            /\ UNCHANGED connection
       ELSE /\ connection' = ClearConnection(connection)
            /\ closer' = "done"
            /\ UNCHANGED wsOpen
    /\ UNCHANGED <<adapter, pc, timer, alive, websocket, attempts, session,
                   pending, ws_url, last_sn, pong, payload, resumeSent, resumeSn, hb,
                   wd, dispatch, prevEnd, hbConn, hbAge>>
    /\ UNCHANGED factoryVars

\* close(): connection.close() returned, the reference is cleared.
KCloseDone ==
    /\ adapter = "KOOK" /\ closer = "closing"
    /\ connection' = ClearConnection(connection)
    /\ closer' = "done"
    /\ UNCHANGED <<adapter, pc, timer, alive, websocket, wsOpen, attempts,
                   session, pending, kookVars>>
    /\ UNCHANGED factoryVars

\* A handler task spawned at line 72 finishes (or fails: nobody awaits it).
DispatchDone ==
    /\ dispatch > 0
    /\ dispatch' = dispatch - 1
    /\ UNCHANGED <<adapter, pc, timer, alive, connection, websocket, wsOpen,
                   attempts, session, pending, closer, keep_run, ws_url,
                   last_sn, pong, payload, resumeSent, resumeSn, hb, wd, prevEnd,
                   hbConn, hbAge>>
    /\ UNCHANGED factoryVars

\* ------------------------------------------- KOOK: heartbeat_interval task

\* `while self.__still_alive` (line 103) with the counter at secv: the task
\* sleeps one time-unit or ends.
HbLoop(i, secv) ==
    IF StillAlive(connection)
    THEN hb' = [hb EXCEPT ![i] = [IdleTask EXCEPT !.pc = "sleep",
                                                  !.sec = secv, !.timer = 1]]
    ELSE hb' = [hb EXCEPT ![i] = [IdleTask EXCEPT !.pc = "done"]]

\* The task is scheduled for the first time: line 102-104.
HbStart(i) ==
    /\ hb[i].pc = "start"
    /\ HbLoop(i, 0)
    /\ UNCHANGED <<adapter, pc, timer, alive, connection, websocket, wsOpen,
                   attempts, session, pending, closer, keep_run, ws_url,
                   last_sn, pong, payload, resumeSent, resumeSn, wd, dispatch,
                   prevEnd, hbConn, hbAge>>
    /\ UNCHANGED factoryVars

\* The period after which a heartbeat is due (line 106).
HeartbeatDue(secv) == secv >= HeartbeatPeriod

\* lines 104-108: the sleep is over; a due heartbeat is written to
\* self.connection, which fails when the reference is None or closed.
HbWake(i) ==
    /\ hb[i].pc = "sleep" /\ hb[i].timer = 0
    /\ IF HeartbeatDue(hb[i].sec + 1)
       THEN IF connection = NoConn \/ connection \notin wsOpen
            THEN /\ hb' = [hb EXCEPT ![i] = [IdleTask EXCEPT !.pc = "crashed"]]
                 /\ UNCHANGED <<hbConn, hbAge>>
            ELSE \* WSPayload(2, sn=self.last_sn) is written
                 /\ hb' = [hb EXCEPT ![i] = [IdleTask EXCEPT !.pc = "send",
                                                             !.sn = last_sn]]
                 /\ hbConn' = IF hbConn = NoConn THEN connection ELSE hbConn
                 /\ hbAge' = IF hbConn = NoConn THEN 0 ELSE hbAge
       ELSE /\ HbLoop(i, hb[i].sec + 1)
            /\ UNCHANGED <<hbConn, hbAge>>
    /\ UNCHANGED <<adapter, pc, timer, alive, connection, websocket, wsOpen,
                   attempts, session, pending, closer, keep_run, ws_url,
                   last_sn, pong, payload, resumeSent, resumeSn, wd, dispatch,
                   prevEnd>>
    /\ UNCHANGED factoryVars

\* line 108 returned: the watchdog is spawned (line 110), then the loop head.
HbSendDone(i) ==
    /\ hb[i].pc = "send"
    /\ \E j \in FreeWd : wd' = [wd EXCEPT ![j] = [IdleTask EXCEPT !.pc = "start"]]
    /\ HbLoop(i, 0)
    /\ UNCHANGED <<adapter, pc, timer, alive, connection, websocket, wsOpen,
                   attempts, session, pending, closer, keep_run, ws_url,
                   last_sn, pong, payload, resumeSent, resumeSn, dispatch,
                   prevEnd, hbConn, hbAge>>
    /\ UNCHANGED factoryVars

\* ---------------------------------------------- KOOK: wait_heartbeat task

\* The watchdog goes on waiting when the ack flag is clear and the
\* connection alive (line 114).
WdWaits(p, conn) == p = 0 /\ StillAlive(conn)

\* line 114 and line 119, with the counter at secv and self.connection =
\* conn: wait one more time-unit, or clear the flag and end.
WdLoop(j, secv, conn) ==
    IF WdWaits(pong, conn)
    THEN /\ wd' = [wd EXCEPT ![j] = [IdleTask EXCEPT !.pc = "sleep",
                                                     !.sec = secv, !.timer = 1]]
         /\ UNCHANGED pong
    ELSE /\ wd' = [wd EXCEPT ![j] = [IdleTask EXCEPT !.pc = "done"]]
         /\ pong' = 0

WdStart(j) ==
    /\ wd[j].pc = "start"
    /\ WdLoop(j, 0, connection)
    /\ UNCHANGED <<adapter, pc, timer, alive, connection, websocket, wsOpen,
                   attempts, session, pending, closer, keep_run, ws_url,
                   last_sn, payload, resumeSent, resumeSn, hb, dispatch,
                   prevEnd, hbConn, hbAge>>
    /\ UNCHANGED factoryVars

\* The deadline after which the watchdog closes the connection (line 117).
WatchdogExpired(secv) == secv >= WatchdogDeadline

\* lines 115-118: the sleep is over; at the deadline close_connection is
\* called whatever the ack flag holds.
WdWake(j) ==
    /\ wd[j].pc = "sleep" /\ wd[j].timer = 0
    /\ IF WatchdogExpired(wd[j].sec + 1)
       THEN IF connection # NoConn
            THEN /\ wsOpen' = CloseTransport(wsOpen, connection)
                 /\ wd' = [wd EXCEPT ![j] = [IdleTask EXCEPT
                                                !.pc = "closing",
                                                !.sec = wd[j].sec + 1]]
                 /\ UNCHANGED <<connection, pong>>
            ELSE /\ connection' = ClearConnection(connection)
                 /\ WdLoop(j, wd[j].sec + 1, connection')
                 /\ UNCHANGED wsOpen
       ELSE /\ WdLoop(j, wd[j].sec + 1, connection)
            /\ UNCHANGED <<connection, wsOpen>>
    /\ UNCHANGED <<adapter, pc, timer, alive, websocket, attempts, session,
                   pending, closer, keep_run, ws_url, last_sn, payload,
                   resumeSent, resumeSn, hb, dispatch,
                   prevEnd, hbConn, hbAge>>
    /\ UNCHANGED factoryVars

\* line 118 returned: the reference is cleared, then line 114 again.
WdCloseDone(j) ==
    /\ wd[j].pc = "closing"
    /\ connection' = ClearConnection(connection)
    /\ WdLoop(j, wd[j].sec, connection')
    /\ UNCHANGED <<adapter, pc, timer, alive, websocket, wsOpen, attempts,
                   session, pending, closer, keep_run, ws_url, last_sn,
                   payload, resumeSent, resumeSn, hb, dispatch,
                   prevEnd, hbConn, hbAge>>
    /\ UNCHANGED factoryVars

\* -------------------------------------------------------------------- time

\* A coroutine that is ready to run, or waits for a network operation that
\* ends within the current time-unit (everything but recv), keeps the clock
\* from advancing.
TaskReady(t) ==
    t.pc \in {"start", "send", "closing"} \/ (t.pc = "sleep" /\ t.timer = 0)
TaskSleeping(t) == t.pc = "sleep" /\ t.timer > 0

Ready ==
    \/ pc \in {"me_req", "gateway", "opening", "sleep0", "send_resume",
               "close5", "exiting", "finally_close", "connecting",
               "mclose_ret", "mclose_end", "mexit"}
    \/ pc \in {"sleep10", "msleep10"} /\ timer = 0
    \/ closer = "closing"
    \/ \E i \in HbIds : TaskReady(hb[i])
    \/ \E j \in WdIds : TaskReady(wd[j])

Sleeping ==
    \/ pc \in {"sleep10", "msleep10"} /\ timer > 0
    \/ \E i \in HbIds : TaskSleeping(hb[i])
    \/ \E j \in WdIds : TaskSleeping(wd[j])

Dec(n) == IF n > 0 THEN n - 1 ELSE 0

\* One time-unit passes for every pending asyncio.sleep.
Tick ==
    /\ ~Ready /\ Sleeping
    /\ timer' = Dec(timer)
    /\ hb' = [i \in HbIds |-> [hb[i] EXCEPT !.timer = Dec(@)]]
    /\ wd' = [j \in WdIds |-> [wd[j] EXCEPT !.timer = Dec(@)]]
    /\ hbAge' = IF hbConn # NoConn /\ hbAge <= WatchdogDeadline
                THEN hbAge + 1 ELSE hbAge
    /\ UNCHANGED <<adapter, pc, alive, connection, websocket, wsOpen,
                   attempts, session, pending, closer, keep_run, ws_url,
                   last_sn, pong, payload, resumeSent, resumeSn, dispatch, prevEnd,
                   hbConn>>
    /\ UNCHANGED factoryVars

\* ------------------------------------------------- Mirai: connect (41-68)

\* `while self.alive` (line 49): recv, or line 58 `await websocket.close()`.
MLoopHead(open, ws) ==
    IF alive
    THEN pc' = "mrecv" /\ wsOpen' = open
    ELSE pc' = "mclose_end" /\ wsOpen' = open \ {ws}

\* lines 62-68: which exceptions connect() catches; after a caught one, or
\* after the `async with` block ended, it sleeps and reschedules itself.
MiraiCaught(exc) == exc \in {"none", "ConnectionClosedOK", "ConnectionRefusedError"}

MAfterTry(exc) ==
    IF exc = "return" THEN pc' = "mreturned" /\ timer' = 0
    ELSE IF MiraiCaught(exc) THEN pc' = "msleep10" /\ timer' = ReconnectDelay
    ELSE pc' = "mraised" /\ timer' = 0

\* line 46: websockets.connect ends: open, refused, or another failure.
MConnect ==
    /\ adapter = "Mirai" /\ pc = "connecting"
    /\ \E r \in {"open", "ConnectionRefusedError", "OSError"} :
         IF r = "open"
         THEN /\ attempts < MaxAttempts
              /\ attempts' = attempts + 1
              /\ websocket' = attempts'
              /\ connection' = attempts'
              /\ MLoopHead(wsOpen \cup {attempts'}, attempts')
              /\ UNCHANGED <<timer, pending>>
         ELSE /\ MAfterTry(r)
              /\ pending' = r
              /\ UNCHANGED <<attempts, websocket, connection, wsOpen>>
    /\ UNCHANGED <<adapter, alive, session, closer, kookVars>>
    /\ UNCHANGED factoryVars

\* lines 50-56: recv() returns a message.
MRecv ==
    /\ adapter = "Mirai" /\ pc = "mrecv"
    /\ websocket \in wsOpen
    /\ ~AwaitsHandler(dispatch)
    /\ \E m \in {"empty", "handshake", "event", "malformed"} :
         /\ CASE m = "empty" ->
                /\ pc' = "mclose_ret"
                /\ wsOpen' = wsOpen \ {websocket}
                /\ UNCHANGED <<session, dispatch>>
           [] m = "handshake" ->
                /\ session' = 1
                /\ MLoopHead(wsOpen, websocket)
                /\ UNCHANGED dispatch
           [] m = "event" ->
                /\ dispatch < MaxDispatch
                /\ dispatch' = SpawnDispatch(dispatch)
                /\ MLoopHead(wsOpen, websocket)
                /\ UNCHANGED session
           [] m = "malformed" ->
                \* json.loads or data['data'] raises inside log.catch
                /\ MLoopHead(wsOpen, websocket)
                /\ UNCHANGED <<session, dispatch>>
         /\ payload' = IF m = "malformed" THEN Malformed ELSE NoFrame
    /\ UNCHANGED <<adapter, timer, alive, connection, websocket, attempts,
                   pending, closer, keep_run, ws_url, last_sn, pong,
                   resumeSent, resumeSn, hb, wd, prevEnd, hbConn, hbAge>>
    /\ UNCHANGED factoryVars

\* line 50: recv() on a closed transport raises ConnectionClosedOK (close
\* code 1000/1001) or ConnectionClosedError (any other).
MRecvClosed ==
    /\ adapter = "Mirai" /\ pc = "mrecv"
    /\ websocket \notin wsOpen
    /\ \E e \in {"ConnectionClosedOK", "ConnectionClosedError"} : pending' = e
    /\ pc' = "mexit"
    /\ UNCHANGED <<adapter, timer, alive, connection, websocket, wsOpen,
                   attempts, session, closer, kookVars>>
    /\ UNCHANGED factoryVars

\* line 53 returned: `return False` leaves the `async with` block.
MCloseRetDone ==
    /\ adapter = "Mirai" /\ pc = "mclose_ret"
    /\ pending' = "return"
    /\ pc' = "mexit"
    /\ UNCHANGED <<adapter, timer, alive, connection, websocket, wsOpen,
                   attempts, session, closer, kookVars>>
    /\ UNCHANGED factoryVars

\* line 58 returned: the block ends normally.
MCloseEndDone ==
    /\ adapter = "Mirai" /\ pc = "mclose_end"
    /\ pending' = "none"
    /\ pc' = "mexit"
    /\ UNCHANGED <<adapter, timer, alive, connection, websocket, wsOpen,
                   attempts, session, closer, kookVars>>
    /\ UNCHANGED factoryVars

\* websockets.connect.__aexit__ closes the transport and lets the outcome
\* through; lines 62-67 follow.
MExit ==
    /\ adapter = "Mirai" /\ pc = "mexit"
    /\ wsOpen' = wsOpen \ {websocket}
    /\ MAfterTry(pending)
    /\ UNCHANGED <<adapter, alive, connection, websocket, attempts, session,
                   pending, closer, kookVars>>
    /\ UNCHANGED factoryVars

\* line 67 returned; line 68 schedules connect() again and this call ends.
MWake10 ==
    /\ adapter = "Mirai" /\ pc = "msleep10" /\ timer = 0
    /\ pc' = "connecting"
    /\ pending' = "none"
    /\ UNCHANGED <<adapter, timer, alive, connection, websocket, wsOpen,
                   attempts, session, closer, kookVars>>
    /\ UNCHANGED factoryVars

\* The instance is stopped: alive is set false and the transport closed.
MiraiClose ==
    /\ adapter = "Mirai" /\ closer = "idle"
    /\ alive' = FALSE
    /\ wsOpen' = wsOpen \ {connection}
    /\ closer' = "done"
    /\ UNCHANGED <<adapter, pc, timer, connection, websocket, attempts,
                   session, pending, kookVars>>
    /\ UNCHANGED factoryVars

\* ------------------------------------- handler factory (amiyabot/handler)
\* Event handlers stand for the dict-shaped collections and message handlers
\* for the list-shaped ones: all of them are read through the one
\* __get_with_plugins.  A handler is written as the object that registered
\* it.  Plugin objects have no plugins of their own, so a plugin's merged
\* view is its private collection.

Range(seq) == {seq[i] : i \in DOMAIN seq}
Count(seq, t) == Cardinality({i \in DOMAIN seq : seq[i] = t})

\* self._event_handlers[item] = [] when missing, then .append(func)
\* (lines 147-150).
DictAppend(d, k, h) ==
    [x \in DOMAIN d \cup {k} |->
        IF x # k THEN d[x]
        ELSE IF k \in DOMAIN d THEN Append(d[k], h) ELSE <<h>>]

\* Variant of IdTaken: the identifier is never looked up.
IdTakenNever(id, ps) == FALSE

\* `plugin_id in self.plugins` (lines 269 and 280).
IdTaken(id, ps) == \E i \in DOMAIN ps : ps[i].id = id

\* self.plugins[plugin_id]
DictGet(ps, id) == ps[CHOOSE i \in DOMAIN ps : ps[i].id = id].inst

\* Variant of DictSet: a new entry goes in front of the others.
DictSetFront(ps, id, inst) == <<[id |-> id, inst |-> inst]>> \o ps

\* self.plugins[plugin_id] = instance (lines 275 and 286): a dict keeps the
\* place of a key it has and puts a new key last.
DictSet(ps, id, inst) ==
    IF \E i \in DOMAIN ps : ps[i].id = id
    THEN [i \in DOMAIN ps |->
             IF ps[i].id = id THEN [id |-> id, inst |-> inst] ELSE ps[i]]
    ELSE Append(ps, [id |-> id, inst |-> inst])

\* del self.plugins[plugin_id] (line 283).
DictDel(ps, id) == SelectSeq(ps, LAMBDA r : r.id # id)

\* itertools.chain(*seqs), from the i-th sequence on.
RECURSIVE ChainFrom(_, _)
ChainFrom(seqs, i) ==
    IF i > Len(seqs) THEN <<>> ELSE seqs[i] \o ChainFrom(seqs, i + 1)

\* line 73: the attribute of every plugin, in the order of self.plugins.
PluginAttr(priv, ps) == [i \in 1..Len(ps) |-> priv[ps[i].inst]]

\* line 78: self_attr + list(chain(*plugin_attr)), a new list.
MergedList(self, attrs) == self \o ChainFrom(attrs, 1)

\* line 81: dict(ChainMap(*plugin_attr)): for a key that several maps hold,
\* the first map that holds it gives the value.
ChainMapDict(maps) ==
    [k \in UNION {DOMAIN maps[i] : i \in DOMAIN maps} |->
        maps[CHOOSE i \in DOMAIN maps :
                /\ k \in DOMAIN maps[i]
                /\ \A j \in DOMAIN maps : j < i => k \notin DOMAIN maps[j]][k]]

\* lines 80-87: the dict that __get_with_plugins returns.
MergedDict(self, maps) ==
    LET pv == ChainMapDict(maps)
    IN  [k \in DOMAIN self \cup DOMAIN pv |->
            IF k \notin DOMAIN pv THEN self[k]
            ELSE IF k \notin DOMAIN self THEN pv[k]
            ELSE self[k] \o pv[k]]

\* lines 80 and 86: {**self_attr} copies the dict, not its lists, so
\* `value[k] += plugin_value[k]` extends the private list of self in place.
SelfAfterMergedDict(self, maps) ==
    LET pv == ChainMapDict(maps)
    IN  [k \in DOMAIN self |->
            IF k \in DOMAIN pv THEN self[k] \o pv[k] ELSE self[k]]

\* A run registers handlers of one shape: the collections are separate
\* attributes and __get_with_plugins reads one of them at a time.
NoEventHandlers ==
    hostEv = EmptyDict /\ \A i \in Insts : instEv[i] = EmptyDict
NoMessageHandlers ==
    hostMsg = <<>> /\ \A i \in Insts : instMsg[i] = <<>>

\* The merged views as a read would return them now (lines 39-65).
EventHandlers == MergedDict(hostEv, PluginAttr(instEv, plugins))
MessageHandlers == MergedList(hostMsg, PluginAttr(instMsg, plugins))
PrefixKeywords == MergedList(hostPrefix, PluginAttr(instPrefix, plugins))

\* on_event(k)(func) called on o (lines 133-152).
OnEvent(o, k) ==
    /\ adapter = "none" /\ NoMessageHandlers
    /\ IF o = Host
       THEN /\ Count(IF k \in DOMAIN hostEv THEN hostEv[k] ELSE <<>>, o)
                 < MaxReg
            /\ hostEv' = DictAppend(hostEv, k, o)
            /\ UNCHANGED instEv
       ELSE /\ Count(IF k \in DOMAIN instEv[o] THEN instEv[o][k] ELSE <<>>, o)
                 < MaxReg
            /\ instEv' = [instEv EXCEPT ![o] = DictAppend(@, k, o)]
            /\ UNCHANGED hostEv
    /\ lastOp' = [op |-> "other", arg |-> "-"]
    /\ snap' = NoSnap
    /\ UNCHANGED <<plugins, hostMsg, instMsg, hostPrefix, instPrefix, hook,
                   order, connVars>>

\* on_message(...)(func) called on o (lines 93-130).
OnMessage(o) ==
    /\ adapter = "none" /\ NoEventHandlers
    /\ IF o = Host
       THEN /\ Count(hostMsg, o) < MaxReg
            /\ hostMsg' = Append(hostMsg, o)
            /\ UNCHANGED instMsg
       ELSE /\ Count(instMsg[o], o) < MaxReg
            /\ instMsg' = [instMsg EXCEPT ![o] = Append(@, o)]
            /\ UNCHANGED hostMsg
    /\ lastOp' = [op |-> "other", arg |-> "-"]
    /\ snap' = NoSnap
    /\ UNCHANGED <<plugins, hostEv, instEv, hostPrefix, instPrefix, hook,
                   order, connVars>>

\* set_prefix_keywords('kw') called on the host (lines 209-210).
SetPrefixKeywords ==
    /\ adapter = "none"
    /\ Len(hostPrefix) < MaxKw
    /\ hostPrefix' = hostPrefix \o <<"kw">>
    /\ lastOp' = [op |-> "other", arg |-> "-"]
    /\ snap' = NoSnap
    /\ UNCHANGED <<plugins, hostEv, instEv, hostMsg, instMsg, instPrefix,
                   hook, order, connVars>>

\* The host's event_handlers property is read (lines 43-45, 79-87).
ReadEventHandlers ==
    /\ adapter = "none"
    /\ hostEv' = SelfAfterMergedDict(hostEv, PluginAttr(instEv, plugins))
    /\ \A k \in DOMAIN hostEv' : Len(hostEv'[k]) <= MaxView
    /\ lastOp' = [op |-> "read", arg |-> "event_handlers"]
    /\ UNCHANGED <<plugins, instEv, hostMsg, instMsg, hostPrefix, instPrefix,
                   hook, order, snap, connVars>>

\* The host's message_handlers property is read (lines 47-49, 77-78).
ReadMessageHandlers ==
    /\ adapter = "none"
    /\ lastOp' = [op |-> "read", arg |-> "message_handlers"]
    /\ UNCHANGED <<plugins, hostEv, instEv, hostMsg, instMsg, hostPrefix,
                   instPrefix, hook, order, snap, connVars>>

\* install_plugin(p), lines 267-273, up to the call of p.install(): the
\* assert of line 269 ends the call when the identifier is taken.
InstallPlugin(p) ==
    /\ adapter = "none" /\ hook = NoHook
    /\ lastOp' = [op |-> "install", arg |-> p]
    /\ IF IdTaken(PluginId(p), plugins)
       THEN UNCHANGED <<instPrefix, hook>>
       ELSE /\ instPrefix' = [instPrefix EXCEPT ![p] = @ \o PrefixKeywords]
            /\ Len(instPrefix'[p]) <= MaxPrefix
            /\ hook' = [kind |-> "install", inst |-> p]
    /\ UNCHANGED <<plugins, hostEv, instEv, hostMsg, instMsg, hostPrefix,
                   order, snap, connVars>>

\* p.install() returns (lines 275-277) or raises.
InstallHookEnd ==
    /\ adapter = "none" /\ hook.kind = "install"
    /\ \E ok \in BOOLEAN :
         IF ok
         THEN /\ plugins' = DictSet(plugins, PluginId(hook.inst), hook.inst)
              /\ order' = Append(order, hook.inst)
              /\ snap' = [inst |-> hook.inst, ev |-> EventHandlers,
                          msg |-> MessageHandlers]
         ELSE UNCHANGED <<plugins, order, snap>>
    /\ hook' = NoHook
    /\ lastOp' = [op |-> "other", arg |-> "-"]
    /\ UNCHANGED <<hostEv, instEv, hostMsg, instMsg, hostPrefix, instPrefix,
                   connVars>>

\* uninstall_plugin(id), lines 280-282, up to the call of uninstall(): the
\* assert ends the call for the factory slot and for an unknown identifier.
UninstallPlugin(id) ==
    /\ adapter = "none" /\ hook = NoHook
    /\ lastOp' = [op |-> "uninstall", arg |-> id]
    /\ IF id # FactorySlot /\ IdTaken(id, plugins)
       THEN hook' = [kind |-> "uninstall", inst |-> DictGet(plugins, id)]
       ELSE UNCHANGED hook
    /\ UNCHANGED <<plugins, hostEv, instEv, hostMsg, instMsg, hostPrefix,
                   instPrefix, order, snap, connVars>>

\* uninstall() returns and line 283 deletes the entry, or uninstall() raises.
UninstallHookEnd ==
    /\ adapter = "none" /\ hook.kind = "uninstall"
    /\ \E ok \in BOOLEAN :
         IF ok
         THEN /\ plugins' = DictDel(plugins, PluginId(hook.inst))
              /\ order' = SelectSeq(order, LAMBDA i : i # hook.inst)
              /\ snap' = NoSnap
         ELSE UNCHANGED <<plugins, order, snap>>
    /\ hook' = NoHook
    /\ lastOp' = [op |-> "other", arg |-> "-"]
    /\ UNCHANGED <<hostEv, instEv, hostMsg, instMsg, hostPrefix, instPrefix,
                   connVars>>

\* combine_factory(F) (lines 285-286).
CombineFactory ==
    /\ adapter = "none" /\ hook = NoHook
    /\ plugins' = DictSet(plugins, FactorySlot, FactoryObj)
    /\ order' = IF FactoryObj \in Range(order) THEN order
                ELSE Append(order, FactoryObj)
    /\ lastOp' = [op |-> "other", arg |-> "-"]
    /\ snap' = NoSnap
    /\ UNCHANGED <<hostEv, instEv, hostMsg, instMsg, hostPrefix, instPrefix,
                   hook, connVars>>

\* BotInstance(adapter=None): no adapter instance is built (handler lines
\* 22-24), the handler factory is empty.
FactoryInit ==
    /\ FactoryEmpty
    /\ adapter = "none" /\ pc = "none" /\ timer = 0
    /\ keep_run = TRUE /\ alive = TRUE /\ ws_url = ""
    /\ connection = NoConn /\ websocket = NoConn /\ wsOpen = {}
    /\ attempts = 0 /\ last_sn = 0 /\ pong = 0 /\ session = 0
    /\ payload = NoFrame /\ pending = "none" /\ resumeSent = FALSE
    /\ resumeSn = NoSn
    /\ hb = [i \in HbIds |-> IdleTask] /\ wd = [j \in WdIds |-> IdleTask]
    /\ closer = "idle" /\ dispatch = 0 /\ prevEnd = "none"
    /\ hbConn = NoConn /\ hbAge = 0

FactoryNext ==
    \/ \E o \in RegOwners : \E k \in RegKeys(o) : OnEvent(o, k)
    \/ \E o \in RegOwners : OnMessage(o)
    \/ SetPrefixKeywords
    \/ ReadEventHandlers \/ ReadMessageHandlers
    \/ \E p \in Plugins : InstallPlugin(p)
    \/ InstallHookEnd
    \/ \E id \in Ids : UninstallPlugin(id)
    \/ UninstallHookEnd
    \/ CombineFactory

FactorySpec == FactoryInit /\ [][FactoryNext]_vars

\* ----------------------------------------------------------- specification

Next ==
    \/ KMeReq \/ KGateway \/ KOpened \/ KSleep0 \/ PeerClose
    \/ KRecvClosed \/ KRecvFrame \/ KSendResumeDone \/ KClose5Done
    \/ KExit \/ KFinallyClosed \/ KWake10 \/ KClose \/ KCloseDone
    \/ DispatchDone
    \/ \E i \in HbIds : HbStart(i) \/ HbWake(i) \/ HbSendDone(i)
    \/ \E j \in WdIds : WdStart(j) \/ WdWake(j) \/ WdCloseDone(j)
    \/ Tick
    \/ MConnect \/ MRecv \/ MRecvClosed \/ MCloseRetDone \/ MCloseEndDone
    \/ MExit \/ MWake10 \/ MiraiClose

Spec == Init /\ [][Next]_vars


\* ------------------------------------------------------------- properties

\* The instance has been stopped.
Stopped == IF adapter = "KOOK" THEN ~keep_run ELSE ~alive

\* The receive loop has just parsed a frame (this step bound `payload`).
FrameStep == pc = "recv" /\ payload' # NoFrame

\* C1, as stated: after a frame is processed last_sn is the sn of the most
\* recent frame with a non-null sn (the frame's own sn, or unchanged when it
\* has none), and last_sn never decreases.
C1_SnLatestAndMonotone ==
    [][FrameStep =>
         /\ payload'.sn # NoSn => last_sn' = payload'.sn
         /\ payload'.sn = NoSn => last_sn' = last_sn
         /\ last_sn' >= last_sn]_vars

\* C1, amended: a handshake-reject or reconnect-required frame leaves
\* last_sn = 0; any other frame leaves it at the frame's sn when that is
\* non-null (smaller or not) and unchanged otherwise; nothing else writes it.
C1_SnBookkeeping ==
    [][IF FrameStep
       THEN last_sn' = IF EndKind(payload') # "other" THEN 0
                       ELSE IF payload'.sn # NoSn THEN payload'.sn
                       ELSE last_sn
       ELSE last_sn' = last_sn]_vars

\* A resume-acknowledged frame with sn 1 was processed after a resume was
\* sent, and last_sn holds its sn.
C1_Witness ==
    /\ pc = "sleep0" /\ payload.s = 6 /\ payload.sn = 1
    /\ resumeSent /\ last_sn = 1


\* C2, as stated: a handshake reject leaves ws_url and last_sn cleared, the
\* attempt that follows it starts with both still cleared (so it requests a
\* new endpoint), and no resume frame (s=4) is written in that attempt.
C2_RejectThenFreshHandshake ==
    /\ (pc = "exiting" /\ EndKind(payload) = "reject")
          => (ws_url = "" /\ last_sn = 0)
    /\ (prevEnd = "reject" /\ pc = "sleep10") => (ws_url = "" /\ last_sn = 0)
    /\ prevEnd = "reject" => ~resumeSent

\* C3, as stated: while the KOOK instance is not stopped connect() neither
\* returns nor ends with the TimeoutError of a failed attempt.
C3_FaultsContained ==
    (adapter = "KOOK" /\ keep_run)
        => /\ pc # "returned"
           /\ ~(pc = "raised" /\ pending = "TimeoutError")

\* C4, as stated: an instance that is not stopped is never left with its
\* connect coroutine ended and no reconnect scheduled.
C4_AlwaysReconnects ==
    Stopped \/ pc \notin {"raised", "returned", "mraised", "mreturned"}

\* C5, as stated: once more than the watchdog deadline has passed since a
\* heartbeat was written without an ack frame being received, the transport
\* it was written to has been closed.
C5_MissedAckForcesClose ==
    hbAge > WatchdogDeadline => hbConn \notin wsOpen

\* C6, as stated: a reconnect-required frame leaves ws_url and last_sn
\* cleared and the transport closed, the loop takes no further frame, the
\* next attempt starts cleared and no resume frame is written in it.
C6_ReconnectThenFreshHandshake ==
    /\ payload.s = 5 => /\ pc \in {"close5", "exiting"}
                        /\ ws_url = "" /\ last_sn = 0
                        /\ websocket \notin wsOpen
    /\ (prevEnd = "reconnect" /\ pc = "sleep10")
          => (ws_url = "" /\ last_sn = 0)
    /\ prevEnd = "reconnect" => ~resumeSent

\* C7, as stated: a handshake-ok frame received with a sequence kept from a
\* connection that ended without reject or reconnect-required makes the
\* loop write a resume frame; on the first connection, and on one that
\* follows a reject or a reconnect-required frame, none is written.
C7_ResumeIffPriorSession ==
    [][/\ (FrameStep /\ payload'.s = 1 /\ payload'.code = 0
             /\ prevEnd = "other" /\ last_sn # 0)
          => (pc' = "send_resume" /\ resumeSent')
       /\ prevEnd' \in {"none", "reject", "reconnect"} => ~resumeSent']_vars

\* C8, as stated: once the instance is stopped no transport is opened.
C8_CloseIsTerminal == [][Stopped => attempts' = attempts]_vars

\* C9: whenever no KOOK attempt is running (after __connect ended, until the
\* next websocket is open) the transport it opened is closed and
\* self.connection is None; once close() was called keep_run is false.
C9_CleanupOnExit ==
    adapter = "KOOK" =>
      /\ pc \in {"sleep10", "raised", "returned", "gateway", "opening"}
            => (connection = NoConn /\ websocket \notin wsOpen)
      /\ closer # "idle" => ~keep_run

\* An attempt ended by the exception of a handshake reject, cleaned up.
C9_Witness ==
    /\ pc = "sleep10" /\ prevEnd = "reject" /\ attempts = 1
    /\ connection = NoConn /\ wsOpen = {}

\* C10: at most one transport is open per instance, for either adapter.
C10_OneTransport == Cardinality(wsOpen) <= 1

\* The second transport is open and the first one is closed.
C10_Witness == attempts = 2 /\ wsOpen = {2} /\ connection = 2


\* A malformed frame was just received: on KOOK line 66 raised, on Mirai
\* handle_message was given a text it cannot read.
MalformedStep ==
    \/ adapter = "KOOK" /\ pc = "recv" /\ pending' = "ParseError"
    \/ /\ adapter = "Mirai" /\ pc = "mrecv"
       /\ payload # Malformed /\ payload' = Malformed

\* C11, as stated: a malformed frame is skipped: the transport stays open,
\* session state is unchanged and the receive loop goes on to take the next
\* frame.
C11_MalformedSkipped ==
    [][MalformedStep =>
         /\ wsOpen' = wsOpen /\ connection' = connection
         /\ session' = session /\ last_sn' = last_sn /\ pong' = pong
         /\ pc' \in {"sleep0", "mrecv"}]_vars

C20_SessionResetOnTerminal ==
    (pc = "sleep10" /\ prevEnd \in {"reject", "reconnect"})
        => (session = 0 /\ last_sn = 0 /\ pong = 0)

\* The KOOK receive loop spawns the handler task of a data frame (line 72).
SpawnStep == adapter = "KOOK" /\ dispatch' > dispatch

\* C21: when the handler task of a data frame with a non-null sn is spawned
\* last_sn already holds that frame's sn; no step but the receive loop's
\* processing of a frame writes last_sn (not the end of a handler task, nor
\* a heartbeat, a watchdog or close()); and a heartbeat frame or a resume
\* frame carries the value last_sn holds when it is written, whether or not
\* handler tasks are unfinished.
C21_SnBeforeHandoff ==
    [][/\ (SpawnStep /\ payload'.sn # NoSn) => last_sn' = payload'.sn
       /\ ~FrameStep => last_sn' = last_sn
       /\ \A i \in HbIds :
            (hb[i].pc # "send" /\ hb'[i].pc = "send") => hb'[i].sn = last_sn'
       /\ (pc # "send_resume" /\ pc' = "send_resume")
            => resumeSn' = last_sn']_vars

\* A heartbeat carrying sn 1 is being written right after a data frame with
\* sn 1 was received, while the handler task of that frame is unfinished.
C21_Witness ==
    /\ pc = "sleep0" /\ payload.s = 0 /\ payload.sn = 1 /\ dispatch > 0
    /\ \E i \in HbIds : hb[i].pc = "send" /\ hb[i].sn = 1

\* No wait_heartbeat task is running (none spawned, or every one ended).
NoWatchdog == \A j \in WdIds : wd[j].pc \in {"none", "done"}

\* C22, as stated: whenever no watchdog is running the ack flag is clear.
C22_AckFlagClearWithoutWatchdog ==
    (adapter = "KOOK" /\ NoWatchdog) => pong = 0

\* heartbeat_interval task i comes to line 108 in this step: its sleep is
\* over and the period is complete.
HbSendStep(i) ==
    /\ hb[i].pc = "sleep" /\ hb[i].timer = 0
    /\ HeartbeatDue(hb[i].sec + 1)
    /\ hb'[i] # hb[i]

\* C23, as stated: when the heartbeat loop comes to its send step
\* self.connection is set and that transport is open.
C23_HeartbeatSendsOnOpenConnection ==
    [][\A i \in HbIds :
         HbSendStep(i) => (connection # NoConn /\ connection \in wsOpen)]_vars


\* ---------------------------------------------- properties: handler factory

\* The identifiers in self.plugins and the plugin objects under them.
InstalledIds == {plugins[i].id : i \in DOMAIN plugins}
InstalledInsts == {plugins[i].inst : i \in DOMAIN plugins}

\* A handler of object p is in one of the merged views ev, msg.
VisibleIn(p, ev, msg) ==
    \/ p \in Range(msg)
    \/ \E k \in DOMAIN ev : p \in Range(ev[k])

\* C12, as stated: the merged event-handler view has the keys of the host
\* and of every installed plugin, and under each key the host's list first
\* and every handler that an installed plugin registered for the key.
C12_KeyedUnionKeepsAll ==
    /\ DOMAIN EventHandlers =
          DOMAIN hostEv \cup UNION {DOMAIN instEv[i] : i \in InstalledInsts}
    /\ \A k \in DOMAIN EventHandlers :
          /\ k \in DOMAIN hostEv =>
                SubSeq(EventHandlers[k], 1, Len(hostEv[k])) = hostEv[k]
          /\ \A i \in InstalledInsts :
                k \in DOMAIN instEv[i] =>
                    Range(instEv[i][k]) \subseteq Range(EventHandlers[k])

\* C13, as stated: when a plugin is removed and nothing was registered,
\* installed, removed or combined since it went in, the merged views are
\* what they were before it went in.
C13_InstallUninstallRestores ==
    [][(hook.kind = "uninstall" /\ plugins' # plugins
          /\ snap.inst = hook.inst)
         => (EventHandlers' = snap.ev /\ MessageHandlers' = snap.msg)]_vars

\* C14, as stated: a read of a merged view changes no private collection,
\* and the next read returns what this one returned.
C14_ReadsArePure ==
    [][lastOp'.op = "read" =>
         /\ hostEv' = hostEv /\ instEv' = instEv
         /\ hostMsg' = hostMsg /\ instMsg' = instMsg
         /\ EventHandlers' = EventHandlers
         /\ MessageHandlers' = MessageHandlers]_vars

\* C15: the merged message-handler view is the host's list followed by the
\* list of every installed plugin, the oldest install first.
C15_SequenceInInstallOrder ==
    MessageHandlers =
        hostMsg \o ChainFrom([i \in 1..Len(order) |-> instMsg[order[i]]], 1)

\* P2 was installed before P1, and all three registered a message handler.
C15_Witness ==
    /\ Len(plugins) = 2 /\ plugins[1].inst = "P2" /\ plugins[2].inst = "P1"
    /\ MessageHandlers = <<"H", "P2", "P1">>

\* C16: install_plugin with an identifier that is installed changes neither
\* the plugin set nor a merged view, gives the plugin no prefix keywords and
\* does not start its install() hook.
C16_DuplicateInstallRejected ==
    [][\A p \in Plugins :
         (lastOp' = [op |-> "install", arg |-> p]
            /\ PluginId(p) \in InstalledIds)
         => /\ plugins' = plugins
            /\ hook = NoHook /\ hook' = NoHook
            /\ instPrefix' = instPrefix
            /\ EventHandlers' = EventHandlers
            /\ MessageHandlers' = MessageHandlers
            /\ PrefixKeywords' = PrefixKeywords]_vars

\* P3 was refused while P1 holds its identifier, and has no keyword of the
\* host.
C16_Witness ==
    /\ lastOp = [op |-> "install", arg |-> "P3"] /\ hook = NoHook
    /\ Len(plugins) = 1 /\ plugins[1] = [id |-> "a", inst |-> "P1"]
    /\ hostPrefix # <<>> /\ instPrefix["P3"] = <<>>

\* C17, as stated: uninstall_plugin of the factory slot or of an identifier
\* that is not installed changes nothing and starts no hook; a plugin that
\* is removed is removed after its hook, and no merged view holds a handler
\* of it afterwards.
C17_UninstallRemovesHandlers ==
    [][/\ \A id \in Ids :
            (lastOp' = [op |-> "uninstall", arg |-> id]
               /\ (id = FactorySlot \/ id \notin InstalledIds))
            => /\ plugins' = plugins /\ hook' = NoHook
               /\ EventHandlers' = EventHandlers
               /\ MessageHandlers' = MessageHandlers
       /\ plugins' # plugins /\ Len(plugins') < Len(plugins)
            => /\ hook.kind = "uninstall"
               /\ ~VisibleIn(hook.inst, EventHandlers', MessageHandlers')]_vars

\* C18, as stated: install_plugin gives the plugin the host's prefix
\* keywords before install() runs; while install() runs, and after it
\* failed, no merged view holds a handler of the plugin.
C18_InstallBeforeVisible ==
    /\ [](hook.kind = "install" =>
             ~VisibleIn(hook.inst, EventHandlers, MessageHandlers))
    /\ [][/\ \A p \in Plugins :
               (lastOp' = [op |-> "install", arg |-> p]
                  /\ hook'.kind = "install")
               => instPrefix'[p] = instPrefix[p] \o PrefixKeywords
          /\ (hook.kind = "install" /\ plugins' = plugins /\ hook' = NoHook)
               => ~VisibleIn(hook.inst, EventHandlers',
                             MessageHandlers')]_vars

====
